---- MODULE Spec2Model ----
(***************************************************************************)
(* The bitemporal record store of Rainbow-Timetravel: the SQLite tables    *)
(* records and record_versions, the DBRecordService that reads and writes  *)
(* them (service/record.go) and the POST handlers that drive it            *)
(* (api/post_records.go).                                                  *)
(***************************************************************************)
EXTENDS Integers, Sequences, FiniteSets, TLC

(* ------------------------------ bounds -------------------------------- *)

\* Effective timestamps (actual_update_timestamp) run over 1..MaxTime.
MaxTime == 3

\* The clock (time.Now().Unix()) runs over 1..MaxNow.
MaxNow == 2

\* The record_versions table holds at most MaxVersions rows.
MaxVersions == 3

\* Record ids run up to MaxId; a handler may also be given 0, which it refuses.
MaxId == 1

\* Attribute keys, and the values each key takes in the calls explored: k1 has
\* two values (so that overwriting shows), k2 one.
Keys == {"k1", "k2"}
ValuesOf(k) == IF k = "k1" THEN {"a", "b"} ELSE {"a"}
Values == UNION {ValuesOf(k) : k \in Keys}

\* A nil *string in map[string]*string: the JSON null that deletes a key.
NilPtr == "nil"

Times == 1..MaxTime
Ids == 1..MaxId
PathIds == 0..MaxId

\* map[string]string values (non-nil)
Maps == UNION {{f \in [D -> Values] : \A k \in D : f[k] \in ValuesOf(k)} : D \in SUBSET Keys}

\* map[string]*string: the update payload
Updates ==
    UNION {{f \in [D -> Values \cup {NilPtr}] : \A k \in D : f[k] \in ValuesOf(k) \cup {NilPtr}} :
           D \in SUBSET Keys}

(* ------------------------ Go maps and JSON text ------------------------ *)

\* A Go map[string]string: nil, or a map with entries kv.
NilMap == [isNil |-> TRUE, kv |-> <<>>]
MakeMap(kv) == [isNil |-> FALSE, kv |-> kv]
GoMaps == {NilMap} \cup {MakeMap(m) : m \in Maps}

\* json.Marshal of a map[string]string: a nil map encodes as the text null,
\* any other map as a JSON object with its entries.
JSONNull == [isNull |-> TRUE, obj |-> <<>>]
Marshal(data) == IF data.isNil THEN JSONNull ELSE [isNull |-> FALSE, obj |-> data.kv]

\* json.Unmarshal(text, &into) for a map target: the text null sets the target
\* to nil; an object is decoded into the target, allocating it when nil and
\* otherwise adding to the entries it holds.
Unmarshal(text, into) ==
    IF text.isNull THEN NilMap
    ELSE MakeMap([k \in (DOMAIN into.kv) \cup (DOMAIN text.obj) |->
                    IF k \in DOMAIN text.obj THEN text.obj[k] ELSE into.kv[k]])

\* A loop that also fails when told to delete a key the map does not hold.
PanicsOnAbsentKey(data, updates) ==
    \/ data.isNil /\ \E k \in DOMAIN updates : updates[k] # NilPtr
    \/ \E k \in DOMAIN updates : updates[k] = NilPtr /\ k \notin DOMAIN data.kv

\* The loop `for key, value := range updates` panics when it assigns to an
\* entry of a nil map; delete on a nil map does nothing.
Panics(data, updates) ==
    data.isNil /\ \E k \in DOMAIN updates : updates[k] # NilPtr

\* A loop that sets the keys with values and skips the nil values, deleting
\* nothing.
ApplyUpdatesKeeping(data, updates) ==
    LET set == {k \in DOMAIN updates : updates[k] # NilPtr}
    IN  IF data.isNil THEN NilMap
        ELSE MakeMap([k \in (DOMAIN data.kv) \cup set |->
                        IF k \in set THEN updates[k] ELSE data.kv[k]])

\* The loop `for key, value := range updates` when it does not panic:
\* a nil value deletes the key, any other value sets it.
ApplyUpdates(data, updates) ==
    LET deleted == {k \in DOMAIN updates : updates[k] = NilPtr}
        set == (DOMAIN updates) \ deleted
    IN  IF data.isNil THEN NilMap
        ELSE MakeMap([k \in ((DOMAIN data.kv) \ deleted) \cup set |->
                        IF k \in set THEN updates[k] ELSE data.kv[k]])

\* entity.Record.Copy: the fields, with the map copied into a fresh non-nil map.
Copy(record) == [record EXCEPT !.Data = MakeMap(record.Data.kv)]

(* ------------------------------ the tables ----------------------------- *)

\* record_versions is the sequence of its rows in insertion order: the
\* autoincrement primary key id of a row is its index.
\* records is the set of identity rows.
\* now is the clock; last the latest call made in sequence; calls the calls
\* that concurrent clients have in flight.
VARIABLES record_versions, records, now, last, calls

vars == <<record_versions, records, now, last, calls>>

VersionRow(attributes, actual_update_timestamp, record_id, created_at) ==
    [attributes |-> attributes, actual_update_timestamp |-> actual_update_timestamp,
     record_id |-> record_id, created_at |-> created_at]

RowIds(tbl) == 1..Len(tbl)

\* The rows of one record
RowsOf(tbl, id) == {i \in RowIds(tbl) : tbl[i].record_id = id}

NoRecord == [ID |-> 0, Version |-> 0, UpdatedTimestamp |-> 0, ReportedTimestamp |-> 0,
             Data |-> NilMap]

EmptyMap == MakeMap(<<>>)

Record(id, version, updatedTimestamp, reportedTimestamp, data) ==
    [ID |-> id, Version |-> version, UpdatedTimestamp |-> updatedTimestamp,
     ReportedTimestamp |-> reportedTimestamp, Data |-> data]

\* The error values a call returns.
ErrNil == "nil"
ErrRecordDoesNotExist == "record with that id does not exist"
ErrRecordAlreadyExists == "record already exists"
ErrBadRequest == "400 Bad Request"
ErrPanic == "panic: assignment to entry in nil map"

(* ------------------------------ read path ------------------------------ *)

\* select count(*) from record_versions
\*   where record_id = ? and actual_update_timestamp < ?
CountBefore(tbl, id, timestamp) ==
    Cardinality({i \in RowsOf(tbl, id) : tbl[i].actual_update_timestamp < timestamp})

\* A query without its order by clause: any of the rows may come first.
AnyAmong(tbl, among) == among

\* ... order by actual_update_timestamp desc limit 1, over the rows in `among`:
\* the ids of the rows the query may return. SQL leaves the order of rows with
\* equal sort keys open, so each row carrying the greatest timestamp may come first.
LatestAmong(tbl, among) ==
    {i \in among : \A j \in among :
        tbl[j].actual_update_timestamp <= tbl[i].actual_update_timestamp}

\* GetRecord's query: the latest row of the record.
GetRecordRows(tbl, id) == LatestAmong(tbl, RowsOf(tbl, id))

\* A base taken from the current latest row, whatever the timestamp asked for.
GetRecordAtRowsLatest(tbl, id, queryTimestamp) == LatestAmong(tbl, RowsOf(tbl, id))

\* A query that compares with <= where GetRecordAt's compares with <.
GetRecordAtRowsInclusive(tbl, id, queryTimestamp) ==
    LatestAmong(tbl, {i \in RowsOf(tbl, id) :
                        tbl[i].actual_update_timestamp <= queryTimestamp})

\* GetRecordAt's query: the latest row of the record before queryTimestamp.
GetRecordAtRows(tbl, id, queryTimestamp) ==
    LatestAmong(tbl, {i \in RowsOf(tbl, id) :
                        tbl[i].actual_update_timestamp < queryTimestamp})

\* GetRecordDetails on a scanned row: the version is inferred by counting, in
\* the table as the second query sees it, the rows of the record before the row's
\* timestamp; the attributes are decoded into a fresh empty map.
GetRecordDetails(tbl, id, row) ==
    Record(id, CountBefore(tbl, id, row.actual_update_timestamp) + 1,
           row.actual_update_timestamp, row.created_at,
           Unmarshal(row.attributes, EmptyMap))

\* GetRecord and GetRecordAt on one table: the records the call may return,
\* or none when the query finds no row (ErrRecordDoesNotExist).
GetRecord(tbl, id) ==
    {GetRecordDetails(tbl, id, tbl[i]) : i \in GetRecordRows(tbl, id)}

GetRecordAt(tbl, id, queryTimestamp) ==
    {GetRecordDetails(tbl, id, tbl[i]) : i \in GetRecordAtRows(tbl, id, queryTimestamp)}

\* A query that returns the rows of the record in the order of their insertion.
InsertionOrders(tbl, id) ==
    {o \in [1..Cardinality(RowsOf(tbl, id)) -> RowsOf(tbl, id)] :
        \A a, b \in DOMAIN o : a < b => o[a] < o[b]}

\* ... order by actual_update_timestamp asc: the orders in which the query may
\* return the rows of the record (rows with equal timestamps in any order).
AscendingOrders(tbl, id) ==
    {o \in [1..Cardinality(RowsOf(tbl, id)) -> RowsOf(tbl, id)] :
        /\ \A a, b \in DOMAIN o : a # b => o[a] # o[b]
        /\ \A a, b \in DOMAIN o :
            a < b => tbl[o[a]].actual_update_timestamp <= tbl[o[b]].actual_update_timestamp}

\* GetVersions after its existence check: the rows in ascending order, each
\* decoded into a zero Record (nil Data) and numbered from 1.
GetVersions(tbl, id) ==
    {[n \in DOMAIN o |->
        Record(id, n, tbl[o[n]].actual_update_timestamp, tbl[o[n]].created_at,
               Unmarshal(tbl[o[n]].attributes, NilMap))] :
      o \in AscendingOrders(tbl, id)}

\* A query that skips `version` rows where GetVersionedRecord's skips version - 1.
GetVersionedRecordSkipping(tbl, id, version) ==
    LET offset == IF version < 0 THEN 0 ELSE version
    IN  {Record(id, version, tbl[o[offset + 1]].actual_update_timestamp,
                tbl[o[offset + 1]].created_at,
                Unmarshal(tbl[o[offset + 1]].attributes, NilMap)) :
            o \in {q \in AscendingOrders(tbl, id) : offset + 1 \in DOMAIN q}}

\* GetVersionedRecord: the row at offset version - 1 of the ascending order (a
\* negative offset counts as 0), decoded into a zero Record and given the
\* version asked for; no record when the offset is past the last row.
GetVersionedRecord(tbl, id, version) ==
    LET offset == IF version - 1 < 0 THEN 0 ELSE version - 1
    IN  {Record(id, version, tbl[o[offset + 1]].actual_update_timestamp,
                tbl[o[offset + 1]].created_at,
                Unmarshal(tbl[o[offset + 1]].attributes, NilMap)) :
            o \in {q \in AscendingOrders(tbl, id) : offset + 1 \in DOMAIN q}}

(* ------------------------------ write path ----------------------------- *)

\* An insert that stores no row.
InsertNothing(tbl, attributes, actual_update_timestamp, record_id, created_at) == tbl

\* insert into record_versions(attributes, actual_update_timestamp, record_id,
\* created_at): the table has no uniqueness constraint beyond its own row id.
InsertVersion(tbl, attributes, actual_update_timestamp, record_id, created_at) ==
    Append(tbl, VersionRow(attributes, actual_update_timestamp, record_id, created_at))

\* A selection without the timestamp bound: every other row of the record.
RowsAfterUnbounded(tbl, id, updatedTimestamp) ==
    {i \in RowsOf(tbl, id) : tbl[i].actual_update_timestamp # updatedTimestamp}

\* A selection without the record id: the rows of any record after
\* updatedTimestamp.
RowsAfterAnyRecord(tbl, id, updatedTimestamp) ==
    {i \in RowIds(tbl) : tbl[i].actual_update_timestamp > updatedTimestamp}

\* The rows UpdateAllRecords selects: those of the record after updatedTimestamp.
RowsAfter(tbl, id, updatedTimestamp) ==
    {i \in RowsOf(tbl, id) : tbl[i].actual_update_timestamp > updatedTimestamp}

\* A cascade that builds each row's new attributes from an empty map, without
\* decoding what the row stores.
CascadedAttributesFromEmpty(attributes, updates) ==
    Marshal(ApplyUpdates(EmptyMap, updates))

\* What UpdateAllRecords writes back to one selected row: its stored attributes
\* decoded into an empty map, with the updates applied, encoded again.
CascadedAttributes(attributes, updates) ==
    Marshal(ApplyUpdates(Unmarshal(attributes, EmptyMap), updates))

\* A cascade that also resets the reported timestamp of the rows it rewrites.
RewriteRowsRestamping(tbl, rows, updates) ==
    [i \in RowIds(tbl) |->
        IF i \in rows
        THEN [tbl[i] EXCEPT !.attributes = CascadedAttributes(@, updates),
                            !.created_at = 0]
        ELSE tbl[i]]

\* A cascade that deletes the rows it selects instead of rewriting them.
RewriteRowsDropping(tbl, rows, updates) ==
    LET kept == SelectSeq([i \in RowIds(tbl) |-> i], LAMBDA i : i \notin rows)
    IN  [n \in DOMAIN kept |-> tbl[kept[n]]]

\* The statements `update record_versions set attributes = ? where id = ?`
\* for the rows in `rows`.
RewriteRows(tbl, rows, updates) ==
    [i \in RowIds(tbl) |->
        IF i \in rows
        THEN [tbl[i] EXCEPT !.attributes = CascadedAttributes(@, updates)]
        ELSE tbl[i]]

\* UpdateAllRecords: every row of the record after updatedTimestamp gets the
\* updates applied to its attributes.
UpdateAllRecords(tbl, id, updatedTimestamp, updates) ==
    RewriteRows(tbl, RowsAfter(tbl, id, updatedTimestamp), updates)

\* The result of a service call: the tables after it, the record and the error
\* it returns.
Result(tbl, recs, record, err) ==
    [record_versions |-> tbl, records |-> recs, record |-> record, err |-> err]

\* The first loop of UpdateAllRecords panics when a selected row stores null
\* and the updates set a key; no row has been rewritten at that point.
CascadePanics(tbl, id, updatedTimestamp, updates) ==
    \E i \in RowsAfter(tbl, id, updatedTimestamp) :
        Panics(Unmarshal(tbl[i].attributes, EmptyMap), updates)

\* UpdateRecord once GetRecordAt has returned `record`, on the table as the
\* transaction finds it: the updates are applied to the record's data, the new
\* row is inserted, UpdateAllRecords runs in the same transaction, and the
\* version is counted after the commit. A panic in either loop ends the call
\* before the commit, and the deferred Rollback leaves the table as it was.
UpdateRecordFrom(tbl, recs, id, updatedTimestamp, updates, record, t) ==
    LET data == ApplyUpdates(record.Data, updates)
        inserted == InsertVersion(tbl, Marshal(data), updatedTimestamp, id, t)
        committed == UpdateAllRecords(inserted, id, updatedTimestamp, updates)
        version == CountBefore(committed, id, updatedTimestamp)
    IN  IF \/ Panics(record.Data, updates)
           \/ CascadePanics(inserted, id, updatedTimestamp, updates)
        THEN Result(tbl, recs, NoRecord, ErrPanic)
        ELSE Result(committed, recs,
                    Copy([record EXCEPT !.Data = data,
                                        !.UpdatedTimestamp = updatedTimestamp,
                                        !.Version = version + 1]),
                    ErrNil)

\* An UpdateRecord that, finding no row before updatedTimestamp, goes on from
\* an empty record instead of failing.
UpdateRecordFromEmpty(tbl, recs, id, updatedTimestamp, updates, t) ==
    IF GetRecordAtRows(tbl, id, updatedTimestamp) = {}
    THEN {UpdateRecordFrom(tbl, recs, id, updatedTimestamp, updates,
                           Record(id, 1, 0, t, EmptyMap), t)}
    ELSE {UpdateRecordFrom(tbl, recs, id, updatedTimestamp, updates,
                           GetRecordDetails(tbl, id, tbl[base]), t) :
            base \in GetRecordAtRows(tbl, id, updatedTimestamp)}

\* UpdateRecord: the set of results the call may have (one per row GetRecordAt
\* may return); without a row before updatedTimestamp it fails and writes nothing.
UpdateRecord(tbl, recs, id, updatedTimestamp, updates, t) ==
    IF GetRecordAtRows(tbl, id, updatedTimestamp) = {}
    THEN {Result(tbl, recs, NoRecord, ErrRecordDoesNotExist)}
    ELSE {UpdateRecordFrom(tbl, recs, id, updatedTimestamp, updates,
                           GetRecordDetails(tbl, id, tbl[base]), t) :
            base \in GetRecordAtRows(tbl, id, updatedTimestamp)}

\* A failure path that keeps what the transaction wrote before it failed.
RollbackMissing(committed, work) == work

\* defer tx.Rollback(): when UpdateRecord returns before the commit, what the
\* transaction wrote is discarded and the table is as committed.
Rollback(committed, work) == committed

\* The errors of the storage calls of UpdateRecord.
ErrBegin == "begin failed"
ErrInsert == "insert failed"
ErrQuery == "select failed"
ErrRewrite == "update failed"

\* UpdateRecord when a storage call fails after GetRecordAt scanned `base`:
\* s.db.Begin, the insert, the select of UpdateAllRecords, or one of its update
\* statements with the rows in `done` already rewritten (the select has no
\* order by, so the rows come in any order). The error is returned and the
\* deferred Rollback runs. A call that panics before a storage call is reached
\* does not get to see that call fail.
UpdateRecordFailingFrom(tbl, recs, id, updatedTimestamp, updates, base, t) ==
    LET record == GetRecordDetails(tbl, id, tbl[base])
        data == ApplyUpdates(record.Data, updates)
        inserted == InsertVersion(tbl, Marshal(data), updatedTimestamp, id, t)
        selected == RowsAfter(inserted, id, updatedTimestamp)
    IN  IF Panics(record.Data, updates) THEN {}
        ELSE {Result(tbl, recs, NoRecord, ErrBegin),
              Result(Rollback(tbl, tbl), recs, NoRecord, ErrInsert),
              Result(Rollback(tbl, inserted), recs, NoRecord, ErrQuery)}
             \cup IF CascadePanics(inserted, id, updatedTimestamp, updates) THEN {}
                  ELSE {Result(Rollback(tbl, RewriteRows(inserted, done, updates)), recs,
                               NoRecord, ErrRewrite) :
                          done \in (SUBSET selected) \ {selected}}

\* The results of an UpdateRecord call during which one storage call fails.
UpdateRecordFailing(tbl, recs, id, updatedTimestamp, updates, t) ==
    UNION {UpdateRecordFailingFrom(tbl, recs, id, updatedTimestamp, updates, base, t) :
            base \in GetRecordAtRows(tbl, id, updatedTimestamp)}

\* UpdateRecord when tx.Commit() fails after GetRecordAt scanned `base`: the
\* result of Commit is dropped, nothing the transaction wrote is kept, the
\* version is counted in the table as it was, and the call returns the record
\* with a nil error.
UpdateRecordCommitFailingFrom(tbl, recs, id, updatedTimestamp, updates, base, t) ==
    LET record == GetRecordDetails(tbl, id, tbl[base])
        data == ApplyUpdates(record.Data, updates)
        inserted == InsertVersion(tbl, Marshal(data), updatedTimestamp, id, t)
        work == UpdateAllRecords(inserted, id, updatedTimestamp, updates)
        after == Rollback(tbl, work)
    IN  IF \/ Panics(record.Data, updates)
           \/ CascadePanics(inserted, id, updatedTimestamp, updates)
        THEN {}
        ELSE {Result(after, recs,
                     Copy([record EXCEPT
                             !.Data = data,
                             !.UpdatedTimestamp = updatedTimestamp,
                             !.Version = CountBefore(after, id, updatedTimestamp) + 1]),
                     ErrNil)}

\* The results of an UpdateRecord call whose commit fails.
UpdateRecordCommitFailing(tbl, recs, id, updatedTimestamp, updates, t) ==
    UNION {UpdateRecordCommitFailingFrom(tbl, recs, id, updatedTimestamp, updates,
                                         base, t) :
            base \in GetRecordAtRows(tbl, id, updatedTimestamp)}

\* An existence check that finds no identity row, whatever the table holds.
CountRecordsNone(recs, id) == 0

\* select count(*) from records where id = ?
CountRecords(recs, id) == Cardinality({r \in recs : r.id = id})

\* CreateRecord: refused when an identity row exists; otherwise the identity
\* row and the first version row are inserted in one transaction.
CreateRecord(tbl, recs, record, t) ==
    IF CountRecords(recs, record.ID) # 0
    THEN {Result(tbl, recs, NoRecord, ErrRecordAlreadyExists)}
    ELSE {Result(InsertVersion(tbl, Marshal(record.Data), record.UpdatedTimestamp,
                               record.ID, t),
                 recs \cup {[id |-> record.ID, created_at |-> t]},
                 Record(record.ID, 1, record.UpdatedTimestamp, t, record.Data),
                 ErrNil)}

\* The error of a failed insert into records.
ErrInsertRecord == "insert into records failed"

\* CreateRecord when a storage call fails: the count query (its error is
\* returned), s.db.Begin (reported as ErrRecordAlreadyExists), the insert of the
\* identity row, or the insert of the version row after the identity row was
\* written. The deferred Rollback discards what the transaction wrote.
CreateRecordFailing(tbl, recs, record, t) ==
    {Result(tbl, recs, NoRecord, ErrQuery)}
    \cup IF CountRecords(recs, record.ID) # 0 THEN {}
         ELSE {Result(tbl, recs, NoRecord, ErrRecordAlreadyExists),
               Result(Rollback(tbl, tbl), Rollback(recs, recs), NoRecord, ErrInsertRecord),
               Result(Rollback(tbl, tbl),
                      Rollback(recs, recs \cup {[id |-> record.ID, created_at |-> t]}),
                      NoRecord, ErrInsert)}

\* CreateRecord when tx.Commit() fails: the result of Commit is dropped, neither
\* insert is kept, and the call returns the record with a nil error.
CreateRecordCommitFailing(tbl, recs, record, t) ==
    IF CountRecords(recs, record.ID) # 0 THEN {}
    ELSE {Result(Rollback(tbl, InsertVersion(tbl, Marshal(record.Data),
                                             record.UpdatedTimestamp, record.ID, t)),
                 Rollback(recs, recs \cup {[id |-> record.ID, created_at |-> t]}),
                 Record(record.ID, 1, record.UpdatedTimestamp, t, record.Data),
                 ErrNil)}

(* ------------------------------- handlers ------------------------------ *)

\* A map built from the payload as it is, nil values included.
RecordMapWithMarkers(body) == MakeMap(body)

\* The map ProcessInput creates a record from: the payload without its nil values.
RecordMap(body) ==
    MakeMap([k \in {k \in DOMAIN body : body[k] # NilPtr} |-> body[k]])

\* ProcessInput: update when GetRecord finds the record, create otherwise.
ProcessInput(tbl, recs, recordId, updatedTimestamp, body, t) ==
    IF GetRecordRows(tbl, recordId) # {}
    THEN UpdateRecord(tbl, recs, recordId, updatedTimestamp, body, t)
    ELSE CreateRecord(tbl, recs,
                      Record(recordId, 1, updatedTimestamp, 0, RecordMap(body)), t)

\* GetRecord when the store fails under one of its two queries: the error it
\* returns. GetRecordDetails answers every failed Scan, of the row or of the
\* count, with ErrRecordDoesNotExist.
GetRecordFailing(tbl, id) == {ErrRecordDoesNotExist}

\* ProcessInput when the store fails under GetRecord: the branch is taken on
\* the error GetRecord returned, whatever the table holds.
ProcessInputFailing(tbl, recs, recordId, updatedTimestamp, body, t) ==
    UNION {IF err # ErrRecordDoesNotExist
           THEN UpdateRecord(tbl, recs, recordId, updatedTimestamp, body, t)
           ELSE CreateRecord(tbl, recs,
                             Record(recordId, 1, updatedTimestamp, 0, RecordMap(body)), t) :
             err \in GetRecordFailing(tbl, recordId)}

\* What a handler answers without calling the service.
Refused(tbl, recs) == {Result(tbl, recs, NoRecord, ErrBadRequest)}

\* POST /api/v1/records/{id}: the update is stamped with the current second.
PostRecords(tbl, recs, idNumber, body, t) ==
    IF idNumber <= 0
    THEN Refused(tbl, recs)
    ELSE ProcessInput(tbl, recs, idNumber, t, body, t)

\* POST of a RecordPayload {UpdatedTimestamp, Data}: a timestamp of 0 stands
\* for the current second, an empty Data is refused.
PostRecordsAtAGivenTime(tbl, recs, idNumber, payloadTimestamp, data, t) ==
    IF idNumber <= 0
    THEN Refused(tbl, recs)
    ELSE IF Cardinality(DOMAIN data) = 0
    THEN Refused(tbl, recs)
    ELSE ProcessInput(tbl, recs, idNumber,
                      IF payloadTimestamp = 0 THEN t ELSE payloadTimestamp, data, t)

(* --------------------------- the state machine ------------------------- *)

\* The clients that call the service concurrently.
Procs == {"p1", "p2"}

\* A call in flight: the method and its arguments, where it stands (pc), the
\* row its first query scanned, the record it holds, and what it returns (out:
\* the records, err). start is the table when the call began; atomic collects
\* what the call could return if it ran in one piece on a table committed
\* between its beginning and its return.
CallState(op, pc, id, ts, updates, row, record, out, err, start, atomic) ==
    [op |-> op, pc |-> pc, id |-> id, ts |-> ts, updates |-> updates, row |-> row,
     record |-> record, out |-> out, err |-> err, start |-> start, atomic |-> atomic]

NoRow == VersionRow(JSONNull, 0, 0, 0)

Idle == CallState("none", "idle", 0, 0, <<>>, NoRow, NoRecord, <<>>, ErrNil, <<>>, {})

\* What a call hands back: the records and the error.
Outcome(out, err) == [out |-> out, err |-> err]

\* `last` records the latest call: its entry point and the error it returned.
Call(op, err) == [op |-> op, err |-> err]

NoCall == Call("none", ErrNil)

Init ==
    /\ record_versions = <<>>
    /\ records = {}
    /\ now = 1
    /\ last = NoCall
    /\ calls = [p \in Procs |-> Idle]

\* Room for one more row: the model explores tables of at most MaxVersions rows,
\* so a call that inserts is explored only while there is room.
CanInsert == Len(record_versions) < MaxVersions

\* UpdateRecord inserts exactly when GetRecordAt finds a base row.
UpdateInserts(id, ts) == GetRecordAtRows(record_versions, id, ts) # {}

\* CreateRecord inserts exactly when the record has no identity row.
CreateInserts(id) == \A r \in records : r.id # id

\* ProcessInput inserts through whichever of the two it calls.
ProcessInserts(id, ts) ==
    IF GetRecordRows(record_versions, id) # {} THEN UpdateInserts(id, ts)
    ELSE CreateInserts(id)

\* A call returns: the tables take the state it leaves.
Return(op, res) ==
    /\ record_versions' = res.record_versions
    /\ records' = res.records
    /\ last' = Call(op, res.err)
    /\ UNCHANGED <<now, calls>>

\* The clock passes to the next second.
Tick ==
    /\ now < MaxNow
    /\ now' = now + 1
    /\ UNCHANGED <<record_versions, records, last, calls>>

\* A direct call of DBRecordService.CreateRecord, its arguments drawn from
\* the given sets.
DoCreateRecordIn(ids, times, maps) ==
    \E id \in ids, ts \in times, data \in maps :
        /\ CanInsert \/ ~CreateInserts(id)
        /\ \E res \in CreateRecord(record_versions, records,
                                Record(id, 1, ts, 0, data), now) :
            Return("CreateRecord", res)

DoCreateRecord == DoCreateRecordIn(Ids, Times, GoMaps)

\* A direct call of DBRecordService.UpdateRecord, its arguments drawn from
\* the given sets.
DoUpdateRecordIn(ids, times, deltas) ==
    \E id \in ids, ts \in times, updates \in deltas :
        /\ CanInsert \/ ~UpdateInserts(id, ts)
        /\ \E res \in UpdateRecord(record_versions, records, id, ts, updates, now) :
            Return("UpdateRecord", res)

DoUpdateRecord == DoUpdateRecordIn(Ids, Times, Updates)

Next ==
    \/ Tick
    \/ DoCreateRecord
    \/ DoUpdateRecord

Spec == Init /\ [][Next]_vars

\* A direct call of DBRecordService.UpdateRecord during which a storage call fails.
DoUpdateRecordFailing ==
    \E id \in Ids, ts \in Times, updates \in Updates :
        \E res \in UpdateRecordFailing(record_versions, records, id, ts, updates, now) :
            Return("UpdateRecord", res)

\* A direct call of DBRecordService.CreateRecord during which a storage call fails.
DoCreateRecordFailing ==
    \E id \in Ids, ts \in Times, data \in GoMaps :
        \E res \in CreateRecordFailing(record_versions, records,
                                       Record(id, 1, ts, 0, data), now) :
            Return("CreateRecord", res)

\* The service on a store whose calls may fail.
NextFault ==
    \/ Tick
    \/ DoCreateRecord
    \/ DoUpdateRecord
    \/ DoUpdateRecordFailing
    \/ DoCreateRecordFailing

SpecFault == Init /\ [][NextFault]_vars

\* A direct call of DBRecordService.UpdateRecord whose commit fails.
DoUpdateRecordCommitFailing ==
    \E id \in Ids, ts \in Times, updates \in Updates :
        \E res \in UpdateRecordCommitFailing(record_versions, records, id, ts,
                                             updates, now) :
            Return("UpdateRecord", res)

\* A direct call of DBRecordService.CreateRecord whose commit fails.
DoCreateRecordCommitFailing ==
    \E id \in Ids, ts \in Times, data \in GoMaps :
        \E res \in CreateRecordCommitFailing(record_versions, records,
                                             Record(id, 1, ts, 0, data), now) :
            Return("CreateRecord", res)

\* The service on a store whose commits may fail.
NextCommit ==
    \/ Tick
    \/ DoCreateRecord
    \/ DoUpdateRecord
    \/ DoUpdateRecordCommitFailing
    \/ DoCreateRecordCommitFailing

SpecCommit == Init /\ [][NextCommit]_vars

\* A direct call of UpdateRecord with a timestamp after every entry of the record.
DoUpdateRecordAfter ==
    \E id \in Ids, ts \in Times, updates \in Updates :
        /\ CanInsert
        /\ \A i \in RowsOf(record_versions, id) :
            record_versions[i].actual_update_timestamp < ts
        /\ \E res \in UpdateRecord(record_versions, records, id, ts, updates, now) :
            Return("UpdateRecord", res)

\* One create followed by updates with strictly increasing effective timestamps.
NextSeq ==
    \/ Tick
    \/ DoCreateRecord
    \/ DoUpdateRecordAfter

SpecSeq == Init /\ [][NextSeq]_vars

(* ----------------------- InMemoryRecordService ------------------------- *)

\* The zero entity.Record as the in-memory service sees it, and a record it stores.
NoEntry == [ID |-> 0, Data |-> NilMap]
Entry(id, data) == [ID |-> id, Data |-> data]

ErrRecordIDInvalid == "record id must >= 0"

\* The result of a call of the in-memory service: its map after the call, the
\* record and the error it returns.
InMemoryResult(data, record, err) == [data |-> data, record |-> record, err |-> err]

\* InMemoryRecordService.GetRecord
InMemoryGetRecord(data, id) ==
    IF data[id].ID = 0
    THEN InMemoryResult(data, NoEntry, ErrRecordDoesNotExist)
    ELSE InMemoryResult(data, [data[id] EXCEPT !.Data = MakeMap(@.kv)], ErrNil)

\* InMemoryRecordService.CreateRecord
InMemoryCreateRecord(data, record) ==
    IF record.ID <= 0 THEN InMemoryResult(data, NoEntry, ErrRecordIDInvalid)
    ELSE IF data[record.ID].ID # 0
    THEN InMemoryResult(data, NoEntry, ErrRecordAlreadyExists)
    ELSE InMemoryResult([data EXCEPT ![record.ID] = Entry(record.ID, record.Data)],
                        NoEntry, ErrNil)

\* An update applied to a copy of the stored map, which the stored record
\* does not see.
InMemoryUpdateRecordDetached(data, id, updates) ==
    IF data[id].ID = 0 THEN InMemoryResult(data, NoEntry, ErrRecordDoesNotExist)
    ELSE IF Panics(data[id].Data, updates) THEN InMemoryResult(data, NoEntry, ErrPanic)
    ELSE InMemoryResult(data,
                        Entry(id, MakeMap(ApplyUpdates(data[id].Data, updates).kv)),
                        ErrNil)

\* InMemoryRecordService.UpdateRecord: entry is a copy of the stored struct
\* whose Data is the stored map itself, so the loop changes the stored record.
InMemoryUpdateRecord(data, id, updates) ==
    IF data[id].ID = 0 THEN InMemoryResult(data, NoEntry, ErrRecordDoesNotExist)
    ELSE IF Panics(data[id].Data, updates) THEN InMemoryResult(data, NoEntry, ErrPanic)
    ELSE InMemoryResult([data EXCEPT ![id].Data = ApplyUpdates(@, updates)],
                        Entry(id, MakeMap(ApplyUpdates(data[id].Data, updates).kv)),
                        ErrNil)

\* A v1 POST.
DoPostRecords ==
    \E id \in PathIds, body \in Updates :
        /\ CanInsert \/ id <= 0 \/ ~ProcessInserts(id, now)
        /\ \E res \in PostRecords(record_versions, records, id, body, now) :
            Return("PostRecords", res)

\* A v2 POST; the payload's timestamp may be absent (0).
DoPostRecordsAtAGivenTime ==
    \E id \in PathIds, ts \in 0..MaxTime, data \in Updates :
        /\ CanInsert \/ id <= 0 \/ DOMAIN data = {}
              \/ ~ProcessInserts(id, IF ts = 0 THEN now ELSE ts)
        /\ \E res \in PostRecordsAtAGivenTime(record_versions, records, id, ts, data, now) :
            Return("PostRecordsAtAGivenTime", res)

\* The store as the HTTP handlers drive it.
NextAPI ==
    \/ Tick
    \/ DoPostRecords
    \/ DoPostRecordsAtAGivenTime

SpecAPI == Init /\ [][NextAPI]_vars

\* A v1 POST during which the store fails under ProcessInput's GetRecord.
DoPostRecordsFailing ==
    \E id \in Ids, body \in Updates :
        /\ CanInsert \/ ~CreateInserts(id)
        /\ \E res \in ProcessInputFailing(record_versions, records, id, now, body, now) :
            Return("PostRecords", res)

\* The v1 handler on a store whose reads may fail.
NextReadFault ==
    \/ Tick
    \/ DoPostRecords
    \/ DoPostRecordsFailing

SpecReadFault == Init /\ [][NextReadFault]_vars

(* --------------------------- concurrent clients ------------------------ *)

\* What a read returns when it runs in one piece on `tbl`.
AtomicOutcomes(op, tbl, id, ts) ==
    LET found == IF op = "GetRecord" THEN GetRecord(tbl, id)
                 ELSE IF op = "GetRecordAt" THEN GetRecordAt(tbl, id, ts)
                 ELSE GetVersions(tbl, id)
    IN  IF RowsOf(tbl, id) = {} \/ found = {}
        THEN {Outcome(<<>>, ErrRecordDoesNotExist)}
        ELSE IF op = "GetVersions" THEN {Outcome(r, ErrNil) : r \in found}
        ELSE {Outcome(<<r>>, ErrNil) : r \in found}

Reads == {"GetRecord", "GetRecordAt", "GetVersions"}

\* The transaction of p commits `tbl` and p goes on as `mine`: the table
\* changes, and every read in flight may from now on also be compared with the
\* committed table.
Committed(p, tbl, mine) ==
    /\ record_versions' = tbl
    /\ calls' = [q \in Procs |->
                    IF q = p THEN mine
                    ELSE IF calls[q].op \in Reads /\ calls[q].pc # "returned"
                    THEN [calls[q] EXCEPT !.atomic =
                            @ \cup AtomicOutcomes(calls[q].op, tbl, calls[q].id, calls[q].ts)]
                    ELSE calls[q]]

\* The rows the calls in flight are still to insert.
PendingInserts ==
    Cardinality({p \in Procs : \/ calls[p].op = "UpdateRecord" /\ calls[p].pc = "read"
                               \/ calls[p].op = "CreateRecord" /\ calls[p].pc = "checked"})

\* Each client makes one call.
CanStart(p) == calls[p].pc = "idle"

\* The updates the concurrent clients send: those that name one key.
OneKeyUpdates == {u \in Updates : Cardinality(DOMAIN u) = 1}

\* The updates that name the key k1 alone.
K1Updates == {u \in Updates : DOMAIN u = {"k1"}}

\* UpdateRecord, lines 187-204: GetRecordAt scans the base row, or fails; the
\* arguments of the call are drawn from the given sets.
UpdateReadIn(p, ids, deltas) ==
    \E id \in ids, ts \in Times, updates \in deltas :
        /\ CanStart(p)
        /\ \A q \in Procs \ {p} :
            (calls[q].op = "UpdateRecord" /\ calls[q].pc # "returned") => calls[q].ts # ts
        /\ IF GetRecordAtRows(record_versions, id, ts) = {}
           THEN calls' = [calls EXCEPT ![p] =
                    CallState("UpdateRecord", "returned", id, ts, updates, NoRow, NoRecord,
                              <<>>, ErrRecordDoesNotExist, record_versions, {})]
           ELSE /\ Len(record_versions) + PendingInserts < MaxVersions
                /\ \E base \in GetRecordAtRows(record_versions, id, ts) :
                    calls' = [calls EXCEPT ![p] =
                        CallState("UpdateRecord", "read", id, ts, updates,
                                  record_versions[base],
                                  GetRecordDetails(record_versions, id, record_versions[base]),
                                  <<>>, ErrNil, record_versions, {})]
        /\ UNCHANGED <<record_versions, records, now, last>>

UpdateRead(p) == UpdateReadIn(p, Ids, OneKeyUpdates)

\* UpdateRecord, lines 206-225: the transaction (insert, UpdateAllRecords,
\* commit) on the table as it is now; SQLite runs one write transaction at a
\* time and shows its writes to no other connection before the commit.
UpdateCommit(p) ==
    /\ calls[p].op = "UpdateRecord" /\ calls[p].pc = "read"
    /\ LET c == calls[p]
           res == UpdateRecordFrom(record_versions, records, c.id, c.ts, c.updates,
                                   c.record, now)
       IN  Committed(p, res.record_versions,
                     [c EXCEPT !.pc = IF res.err = ErrNil THEN "committed" ELSE "returned",
                               !.record = res.record, !.err = res.err])
    /\ UNCHANGED <<records, now, last>>

\* UpdateRecord, lines 228-237: the version is counted in the table as it is now.
UpdateReturn(p) ==
    /\ calls[p].op = "UpdateRecord" /\ calls[p].pc = "committed"
    /\ LET c == calls[p]
           record == [c.record EXCEPT
                        !.Version = CountBefore(record_versions, c.id, c.ts) + 1]
       IN  calls' = [calls EXCEPT ![p] =
                [c EXCEPT !.pc = "returned", !.record = record, !.out = <<record>>]]
    /\ UNCHANGED <<record_versions, records, now, last>>

\* GetRecord or GetRecordAt, first query: the row is scanned, or the call fails.
\* GetVersions, line 310: its GetRecord call, whose record it drops.
ReadScan(p) ==
    \E op \in Reads, id \in Ids, ts \in Times :
        /\ CanStart(p)
        /\ op # "GetRecordAt" => ts = 1
        /\ LET rows == IF op = "GetRecordAt" THEN GetRecordAtRows(record_versions, id, ts)
                       ELSE GetRecordRows(record_versions, id)
               atomic == AtomicOutcomes(op, record_versions, id, ts)
           IN  IF rows = {}
               THEN calls' = [calls EXCEPT ![p] =
                        CallState(op, "returned", id, ts, <<>>, NoRow, NoRecord, <<>>,
                                  ErrRecordDoesNotExist, record_versions, atomic)]
               ELSE \E i \in rows :
                        calls' = [calls EXCEPT ![p] =
                            CallState(op, "scanned", id, ts, <<>>, record_versions[i],
                                      NoRecord, <<>>, ErrNil, record_versions, atomic)]
        /\ UNCHANGED <<record_versions, records, now, last>>

\* A read that stamps the row it has scanned.
ReadReturnStamping(p) ==
    /\ calls[p].op \in Reads /\ calls[p].pc = "scanned"
    /\ calls' = [calls EXCEPT ![p] =
            [calls[p] EXCEPT !.pc = "returned",
                             !.out = <<GetRecordDetails(record_versions, calls[p].id,
                                                        calls[p].row)>>]]
    /\ record_versions' = [i \in RowIds(record_versions) |->
            IF record_versions[i] = calls[p].row
            THEN [record_versions[i] EXCEPT !.created_at = 0]
            ELSE record_versions[i]]
    /\ UNCHANGED <<records, now, last>>

\* The second query: GetRecordDetails counts the rows before the scanned row
\* in the table as it is now; GetVersions selects the rows of the record.
ReadReturn(p) ==
    /\ calls[p].op \in Reads /\ calls[p].pc = "scanned"
    /\ LET c == calls[p]
       IN  IF c.op = "GetVersions"
           THEN \E r \in GetVersions(record_versions, c.id) :
                    calls' = [calls EXCEPT ![p] = [c EXCEPT !.pc = "returned", !.out = r]]
           ELSE calls' = [calls EXCEPT ![p] =
                    [c EXCEPT !.pc = "returned",
                              !.out = <<GetRecordDetails(record_versions, c.id, c.row)>>]]
    /\ UNCHANGED <<record_versions, records, now, last>>

\* The error of a Scan that finds no row, which GetVersionedRecord returns as it is.
ErrNoRows == "sql: no rows in result set"

\* GetVersionedRecord: its one query, and the record or the Scan's error.
ReadVersion(p) ==
    \E id \in Ids, version \in 1..MaxVersions :
        /\ CanStart(p)
        /\ LET found == GetVersionedRecord(record_versions, id, version)
           IN  IF found = {}
               THEN calls' = [calls EXCEPT ![p] =
                        CallState("GetVersionedRecord", "returned", id, version, <<>>,
                                  NoRow, NoRecord, <<>>, ErrNoRows, record_versions, {})]
               ELSE \E r \in found :
                        calls' = [calls EXCEPT ![p] =
                            CallState("GetVersionedRecord", "returned", id, version, <<>>,
                                      NoRow, r, <<r>>, ErrNil, record_versions, {})]
        /\ UNCHANGED <<record_versions, records, now, last>>

\* Before the clients call, the chain is built by calls made in sequence.
Setup ==
    /\ \A p \in Procs : calls[p].pc = "idle"
    /\ Len(record_versions) < MaxVersions - 1
    /\ DoCreateRecord \/ DoUpdateRecord

NextConc ==
    \/ Setup
    \/ \E p \in Procs : UpdateRead(p)
    \/ \E p \in Procs : UpdateCommit(p)
    \/ \E p \in Procs : UpdateReturn(p)
    \/ \E p \in Procs : ReadScan(p)
    \/ \E p \in Procs : ReadReturn(p)
    \/ \E p \in Procs : ReadVersion(p)

SpecConc == Init /\ [][NextConc]_vars

(* ------------------------- clients of two records --------------------- *)

\* The ids of the records the clients of this part work on.
MaxPairId == 2
PairIds == 1..MaxPairId

\* insert into records: id is the primary key of the table.
ErrConstraint == "UNIQUE constraint failed: records.id"

\* CreateRecord, lines 118-130: the count of identity rows, outside the
\* transaction; the call ends here when there is one.
CreateCheck(p) ==
    \E id \in PairIds, ts \in Times :
        /\ CanStart(p)
        /\ IF CountRecords(records, id) # 0
           THEN calls' = [calls EXCEPT ![p] =
                    CallState("CreateRecord", "returned", id, ts, <<>>, NoRow, NoRecord,
                              <<>>, ErrRecordAlreadyExists, record_versions, {})]
           ELSE /\ Len(record_versions) + PendingInserts < MaxVersions
                /\ calls' = [calls EXCEPT ![p] =
                        CallState("CreateRecord", "checked", id, ts, <<>>, NoRow,
                                  Record(id, 1, ts, 0, EmptyMap), <<>>, ErrNil,
                                  record_versions, {})]
        /\ UNCHANGED <<record_versions, records, now, last>>

\* A transaction whose insert into records is not held back by a primary key.
CreateCommitUnchecked(p) ==
    /\ calls[p].op = "CreateRecord" /\ calls[p].pc = "checked"
    /\ LET c == calls[p]
           record == Record(c.id, 1, c.ts, now, c.record.Data)
       IN  /\ records' = records \cup {[id |-> c.id, created_at |-> now]}
           /\ Committed(p, InsertVersion(record_versions, Marshal(c.record.Data),
                                         c.ts, c.id, now),
                        [c EXCEPT !.pc = "returned", !.record = record,
                                  !.out = <<record>>, !.err = ErrNil])
    /\ UNCHANGED <<now, last>>

\* CreateRecord, lines 134-172: the transaction on the tables as they are now.
\* The insert of the identity row fails when another call has inserted one
\* since the count, and the deferred Rollback leaves the tables as they were.
CreateCommit(p) ==
    /\ calls[p].op = "CreateRecord" /\ calls[p].pc = "checked"
    /\ LET c == calls[p]
       IN  IF \E r \in records : r.id = c.id
           THEN /\ calls' = [calls EXCEPT ![p] =
                        [c EXCEPT !.pc = "returned", !.record = NoRecord,
                                  !.err = ErrConstraint]]
                /\ UNCHANGED <<record_versions, records>>
           ELSE \E res \in CreateRecord(record_versions, records, c.record, now) :
                    /\ records' = res.records
                    /\ Committed(p, res.record_versions,
                                 [c EXCEPT !.pc = "returned", !.record = res.record,
                                           !.out = <<res.record>>, !.err = res.err])
    /\ UNCHANGED <<now, last>>

\* The client is done with its call and may make another.
NextCall(p) ==
    /\ calls[p].pc = "returned"
    /\ calls' = [calls EXCEPT ![p] = Idle]
    /\ UNCHANGED <<record_versions, records, now, last>>

UpdateReadPair(p) == UpdateReadIn(p, PairIds, K1Updates)

NextPair ==
    \/ \E p \in Procs : CreateCheck(p)
    \/ \E p \in Procs : CreateCommit(p)
    \/ \E p \in Procs : UpdateReadPair(p)
    \/ \E p \in Procs : UpdateCommit(p)
    \/ \E p \in Procs : UpdateReturn(p)
    \/ \E p \in Procs : NextCall(p)

SpecPair == Init /\ [][NextPair]_vars

(* ------------------------- concurrent upserts -------------------------- *)

\* ProcessInput, line 185: GetRecord, outside any transaction; the call goes
\* on to update when it finds the record and to create when it does not.
ProcessRead(p) ==
    \E id \in PairIds, ts \in Times, body \in K1Updates :
        /\ CanStart(p)
        /\ calls' = [calls EXCEPT ![p] =
                CallState("ProcessInput",
                          IF GetRecordRows(record_versions, id) # {}
                          THEN "found" ELSE "missing",
                          id, ts, body, NoRow,
                          Record(id, 1, ts, 0, RecordMap(body)), <<>>, ErrNil,
                          record_versions, {})]
        /\ UNCHANGED <<record_versions, records, now, last>>

\* ProcessInput, line 190, into UpdateRecord, lines 187-204: GetRecordAt scans
\* the base row in the table as it is now, or fails.
ProcessUpdate(p) ==
    /\ calls[p].op = "ProcessInput" /\ calls[p].pc = "found"
    /\ LET c == calls[p]
       IN  IF GetRecordAtRows(record_versions, c.id, c.ts) = {}
           THEN calls' = [calls EXCEPT ![p] =
                    [c EXCEPT !.op = "UpdateRecord", !.pc = "returned",
                              !.record = NoRecord, !.err = ErrRecordDoesNotExist]]
           ELSE \E base \in GetRecordAtRows(record_versions, c.id, c.ts) :
                    calls' = [calls EXCEPT ![p] =
                        [c EXCEPT !.op = "UpdateRecord", !.pc = "read",
                                  !.row = record_versions[base],
                                  !.record = GetRecordDetails(record_versions, c.id,
                                                              record_versions[base])]]
    /\ UNCHANGED <<record_versions, records, now, last>>

\* ProcessInput, lines 194-208, into CreateRecord, lines 118-130: the count of
\* identity rows in the table as it is now.
ProcessCreate(p) ==
    /\ calls[p].op = "ProcessInput" /\ calls[p].pc = "missing"
    /\ LET c == calls[p]
       IN  IF CountRecords(records, c.id) # 0
           THEN calls' = [calls EXCEPT ![p] =
                    [c EXCEPT !.op = "CreateRecord", !.pc = "returned",
                              !.record = NoRecord, !.err = ErrRecordAlreadyExists]]
           ELSE calls' = [calls EXCEPT ![p] =
                    [c EXCEPT !.op = "CreateRecord", !.pc = "checked"]]
    /\ UNCHANGED <<record_versions, records, now, last>>

\* Two clients, each making one CreateRecord call or one POST, on a store
\* that starts empty.
NextUpsert ==
    \/ \E p \in Procs : CreateCheck(p)
    \/ \E p \in Procs : ProcessRead(p)
    \/ \E p \in Procs : ProcessCreate(p)
    \/ \E p \in Procs : ProcessUpdate(p)
    \/ \E p \in Procs : CreateCommit(p)
    \/ \E p \in Procs : UpdateCommit(p)
    \/ \E p \in Procs : UpdateReturn(p)

SpecUpsert == Init /\ [][NextUpsert]_vars

(* ------------------------- a longer time line ------------------------- *)

\* The effective timestamps of the calls that build chains with room for an
\* update behind two later entries.
MaxLongTime == 4
LongTimes == 1..MaxLongTime

\* Direct calls on one record created empty, over the longer time line.
DoCreateRecordLong == DoCreateRecordIn(Ids, LongTimes, {EmptyMap})

DoUpdateRecordLong == DoUpdateRecordIn(Ids, LongTimes, K1Updates)

NextRetro ==
    \/ DoCreateRecordLong
    \/ DoUpdateRecordLong

SpecRetro == Init /\ [][NextRetro]_vars

(* ------------------------------- the claims ---------------------------- *)

\* The attributes an entry stores, as a mapping (the JSON text null holds no key).
AttributesOf(row) == IF row.attributes.isNull THEN <<>> ELSE row.attributes.obj

\* `after` is `before` with `delta` applied: a non-null value sets the key, a
\* deletion marker removes it, a key the delta does not name keeps its state.
IsDeltaApplied(before, delta, after) ==
    \A k \in Keys :
        IF k \in DOMAIN delta
        THEN IF delta[k] = NilPtr
             THEN k \notin DOMAIN after
             ELSE k \in DOMAIN after /\ after[k] = delta[k]
        ELSE /\ (k \in DOMAIN after) = (k \in DOMAIN before)
             /\ k \in DOMAIN before => after[k] = before[k]

\* The row the latest successful write inserted.
LastRow == record_versions[Len(record_versions)]

\* The rows that were there before the latest insert.
Earlier == 1..(Len(record_versions) - 1)

\* The latest call was a direct UpdateRecord that succeeded.
UpdateSucceeded == last.op = "UpdateRecord" /\ last.err = ErrNil

\* C1: after a successful UpdateRecord(id, T, delta), every entry of id that
\* existed before the call with an effective timestamp greater than T holds its
\* previously stored attributes with delta applied.
C1_CascadeAppliesDelta ==
    \A id \in Ids, T \in Times, delta \in Updates :
        \A res \in UpdateRecord(record_versions, records, id, T, delta, now) :
            res.err = ErrNil =>
                \A i \in RowsOf(record_versions, id) :
                    record_versions[i].actual_update_timestamp > T =>
                        IsDeltaApplied(AttributesOf(record_versions[i]), delta,
                                       AttributesOf(res.record_versions[i]))

\* An update has just succeeded behind an existing later entry of its record,
\* and that entry holds attributes.
C1_Witness ==
    /\ UpdateSucceeded
    /\ \E i \in Earlier :
        /\ record_versions[i].record_id = LastRow.record_id
        /\ record_versions[i].actual_update_timestamp > LastRow.actual_update_timestamp
        /\ AttributesOf(record_versions[i]) # <<>>
        /\ AttributesOf(record_versions[i]) # AttributesOf(LastRow)

\* C2: a successful UpdateRecord(id, T, delta) with an entry of id before T
\* inserts one entry at T, reported now, whose attributes are delta applied to
\* the attributes of an entry with the greatest effective timestamp before T.
C2_BaseIsStateBeforeT ==
    \A id \in Ids, T \in Times, delta \in Updates :
        \A res \in UpdateRecord(record_versions, records, id, T, delta, now) :
            LET before == {i \in RowsOf(record_versions, id) :
                             record_versions[i].actual_update_timestamp < T}
                new == res.record_versions[Len(record_versions) + 1]
            IN  (res.err = ErrNil /\ before # {}) =>
                    /\ Len(res.record_versions) = Len(record_versions) + 1
                    /\ new.record_id = id
                    /\ new.actual_update_timestamp = T
                    /\ new.created_at = now
                    /\ \E b \in before :
                        /\ \A j \in before : record_versions[j].actual_update_timestamp
                                               <= record_versions[b].actual_update_timestamp
                        /\ IsDeltaApplied(AttributesOf(record_versions[b]), delta,
                                          AttributesOf(new))

\* An update has just succeeded between two entries of its record whose
\* attributes differ: the base before T is not the current latest entry.
C2_Witness ==
    /\ UpdateSucceeded
    /\ \E b \in Earlier, l \in Earlier :
        /\ record_versions[b].record_id = LastRow.record_id
        /\ record_versions[l].record_id = LastRow.record_id
        /\ record_versions[b].actual_update_timestamp < LastRow.actual_update_timestamp
        /\ record_versions[l].actual_update_timestamp > LastRow.actual_update_timestamp
        /\ AttributesOf(record_versions[b]) # AttributesOf(record_versions[l])

\* C3 (as claimed): UpdateRecord(id, T, delta) on a record with entries, with T
\* before every entry, succeeds, inserts an entry at T holding delta applied to
\* the empty map, and cascades delta into all existing entries.
C3_UpdateBeforeAllEntriesSucceeds ==
    \A id \in Ids, T \in Times, delta \in Updates :
        (/\ RowsOf(record_versions, id) # {}
         /\ \A i \in RowsOf(record_versions, id) :
                T < record_versions[i].actual_update_timestamp) =>
            \A res \in UpdateRecord(record_versions, records, id, T, delta, now) :
                /\ res.err = ErrNil
                /\ Len(res.record_versions) = Len(record_versions) + 1
                /\ LET new == res.record_versions[Len(record_versions) + 1]
                   IN  /\ new.record_id = id
                       /\ new.actual_update_timestamp = T
                       /\ IsDeltaApplied(<<>>, delta, AttributesOf(new))
                /\ \A i \in RowsOf(record_versions, id) :
                       IsDeltaApplied(AttributesOf(record_versions[i]), delta,
                                      AttributesOf(res.record_versions[i]))

\* C4: UpdateRecord(id, T, delta) leaves every entry of id with an effective
\* timestamp before T unchanged in all its fields.
C4_EarlierEntriesUnchanged ==
    \A id \in Ids, T \in Times, delta \in Updates :
        \A res \in UpdateRecord(record_versions, records, id, T, delta, now) :
            \A i \in RowsOf(record_versions, id) :
                record_versions[i].actual_update_timestamp < T =>
                    res.record_versions[i] = record_versions[i]

\* An update has just succeeded after an earlier entry whose attributes the
\* update's result does not share, with a later entry present as well.
C4_Witness ==
    /\ UpdateSucceeded
    /\ \E b \in Earlier, l \in Earlier :
        /\ record_versions[b].record_id = LastRow.record_id
        /\ record_versions[l].record_id = LastRow.record_id
        /\ record_versions[b].actual_update_timestamp < LastRow.actual_update_timestamp
        /\ record_versions[l].actual_update_timestamp > LastRow.actual_update_timestamp
        /\ AttributesOf(record_versions[b]) # AttributesOf(LastRow)
        /\ record_versions[b].created_at < LastRow.created_at

C8_UniqueEffectiveTimestamps ==
    \A i \in RowIds(record_versions), j \in RowIds(record_versions) :
        (/\ i # j
         /\ record_versions[i].record_id = record_versions[j].record_id) =>
            record_versions[i].actual_update_timestamp
                # record_versions[j].actual_update_timestamp

\* C9 (as claimed): UpdateRecord(id, T, delta) with T the effective timestamp
\* of an existing entry of id is rejected and leaves the version chain
\* unchanged. (The code has no DuplicateTimestamp error: any error counts as
\* the rejection.)
C9_DuplicateTimestampRejected ==
    \A id \in Ids, T \in Times, delta \in Updates :
        (\E i \in RowsOf(record_versions, id) :
            record_versions[i].actual_update_timestamp = T) =>
            \A res \in UpdateRecord(record_versions, records, id, T, delta, now) :
                /\ res.err # ErrNil
                /\ res.record_versions = record_versions

\* C10 (as claimed): on a record that exists, an update with an empty delta is
\* rejected and inserts no entry, whether it comes through the v1 handler, the
\* v2 handler or a direct call of UpdateRecord. (The code has no EmptyUpdate
\* error: any error counts as the rejection.)
C10_EmptyUpdateRejected ==
    \A id \in Ids :
        RowsOf(record_versions, id) # {} =>
            \A res \in PostRecords(record_versions, records, id, <<>>, now)
                       \cup UNION {PostRecordsAtAGivenTime(record_versions, records, id,
                                                           T, <<>>, now) : T \in 0..MaxTime}
                       \cup UNION {UpdateRecord(record_versions, records, id, T, <<>>, now) :
                                     T \in Times} :
                /\ res.err # ErrNil
                /\ res.record_versions = record_versions

\* The version chain of a record: the effective timestamp and the attributes
\* of each of its entries.
Chain(tbl, id) ==
    {[effectiveTimestamp |-> tbl[i].actual_update_timestamp,
      attributes |-> AttributesOf(tbl[i])] : i \in RowsOf(tbl, id)}

\* The chains that the call of a followed by the call of b, each run in one
\* piece, may leave from the table both began on.
SerialChains(a, b) ==
    {Chain(second.record_versions, a.id) :
        second \in UNION {UpdateRecord(first.record_versions, records, b.id, b.ts,
                                       b.updates, now) :
                            first \in UpdateRecord(a.start, records, a.id, a.ts,
                                                   a.updates, now)}}

\* C6 (as claimed): two concurrent UpdateRecord calls on one record, at
\* distinct effective timestamps, leave the chain that running the two calls
\* one after the other, in one of the two orders, leaves.
C6_ConcurrentUpdatesSerialize ==
    \A p \in Procs, q \in Procs :
        (/\ p # q
         /\ calls[p].op = "UpdateRecord" /\ calls[q].op = "UpdateRecord"
         /\ calls[p].pc = "returned" /\ calls[q].pc = "returned"
         /\ calls[p].err = ErrNil /\ calls[q].err = ErrNil
         /\ calls[p].id = calls[q].id
         /\ calls[p].ts # calls[q].ts
         /\ calls[p].start = calls[q].start) =>
            Chain(record_versions, calls[p].id)
                \in SerialChains(calls[p], calls[q]) \cup SerialChains(calls[q], calls[p])

\* C7 (as claimed): a GetRecord, GetRecordAt or GetVersions call that races
\* with an UpdateRecord returns what it would return run in one piece before
\* or after the update: records and error are those of one committed table.
C7_ReadsSeeOneCommittedState ==
    \A p \in Procs :
        (calls[p].op \in Reads /\ calls[p].pc = "returned") =>
            Outcome(calls[p].out, calls[p].err) \in calls[p].atomic

\* The ranks GetVersions may report for row i of the record: its positions in
\* the orders the query may return.
RanksOf(tbl, id, i) ==
    {n \in 1..Cardinality(RowsOf(tbl, id)) :
        \E o \in AscendingOrders(tbl, id) : o[n] = i}

\* C11: after a successful UpdateRecord(id, T, delta), every entry of id that
\* was there with an effective timestamp greater than T is reported by
\* GetVersions one rank higher than before and every entry with an effective
\* timestamp less than T at the rank it had; the version GetRecordDetails
\* infers for those entries moves in the same way.
C11_RanksShiftByOne ==
    \A id \in Ids, T \in LongTimes, delta \in K1Updates :
        \A res \in UpdateRecord(record_versions, records, id, T, delta, now) :
            res.err = ErrNil =>
                \A i \in RowsOf(record_versions, id) :
                    LET ts == record_versions[i].actual_update_timestamp
                        shift == IF ts > T THEN 1 ELSE 0
                    IN  ts # T =>
                            /\ RanksOf(res.record_versions, id, i)
                                 = {n + shift : n \in RanksOf(record_versions, id, i)}
                            /\ CountBefore(res.record_versions, id, ts)
                                 = CountBefore(record_versions, id, ts) + shift

\* An update has just succeeded between two entries of its record: the entry
\* inserted last is reported at rank 2, the later entry at rank 3 and the
\* earlier one at rank 1.
C11_Witness ==
    /\ UpdateSucceeded
    /\ Len(record_versions) = 3
    /\ RanksOf(record_versions, LastRow.record_id, 3) = {2}
    /\ \E b \in Earlier, l \in Earlier :
        /\ RanksOf(record_versions, LastRow.record_id, b) = {1}
        /\ RanksOf(record_versions, LastRow.record_id, l) = {3}
        /\ record_versions[b].actual_update_timestamp < LastRow.actual_update_timestamp
        /\ record_versions[l].actual_update_timestamp > LastRow.actual_update_timestamp

\* C12 (as claimed): GetVersions(id) returns every entry of id, ranked 1..N,
\* with strictly ascending effective timestamps; for an id without entries it
\* fails with ErrRecordDoesNotExist.
C12_VersionsRankedStrictlyAscending ==
    \A id \in Ids :
        \A res \in AtomicOutcomes("GetVersions", record_versions, id, 1) :
            IF RowsOf(record_versions, id) = {}
            THEN res.err = ErrRecordDoesNotExist
            ELSE /\ res.err = ErrNil
                 /\ Len(res.out) = Cardinality(RowsOf(record_versions, id))
                 /\ \A n \in DOMAIN res.out : res.out[n].Version = n
                 /\ \A i \in RowsOf(record_versions, id) :
                        \E n \in DOMAIN res.out :
                            /\ res.out[n].UpdatedTimestamp
                                 = record_versions[i].actual_update_timestamp
                            /\ res.out[n].Data.kv = AttributesOf(record_versions[i])
                 /\ \A n \in DOMAIN res.out :
                        n < Len(res.out) =>
                            res.out[n].UpdatedTimestamp < res.out[n + 1].UpdatedTimestamp

\* A call UpdateRecord(id, ts, updates) about to start on the table as it is.
UpdateCall(id, ts, updates) ==
    [id |-> id, ts |-> ts, updates |-> updates, start |-> record_versions]

\* The effective timestamps of the entries of id.
TimestampsOf(tbl, id) == {tbl[i].actual_update_timestamp : i \in RowsOf(tbl, id)}

\* C13 (as claimed): two updates of one record at distinct effective
\* timestamps T1 < T2, neither of them taken by an entry and both after some
\* entry, leave the same chain whether the earlier one is recorded first or
\* recorded late, after the later one.
C13_ReportingOrderIrrelevant ==
    \A id \in Ids, T1 \in LongTimes, T2 \in LongTimes :
        \A d1 \in K1Updates, d2 \in K1Updates :
            (/\ T1 < T2
             /\ {T1, T2} \cap TimestampsOf(record_versions, id) = {}
             /\ Cardinality(TimestampsOf(record_versions, id))
                  = Cardinality(RowsOf(record_versions, id))
             /\ \E t \in TimestampsOf(record_versions, id) : t < T1) =>
                SerialChains(UpdateCall(id, T2, d2), UpdateCall(id, T1, d1))
                    = SerialChains(UpdateCall(id, T1, d1), UpdateCall(id, T2, d2))

\* The attribute maps a and b differ at key k: one holds it and the other does
\* not, or they hold different values.
DiffersAt(a, b, k) ==
    \/ (k \in DOMAIN a) # (k \in DOMAIN b)
    \/ k \in DOMAIN a /\ k \in DOMAIN b /\ a[k] # b[k]

\* C14 (as claimed): after a successful UpdateRecord(id, T, delta) on a chain
\* of distinct effective timestamps, T not among them, any key at which two
\* consecutive entries after T differed before the call is a key at which they
\* differ after it.
C14_RelativeDifferencesKept ==
    \A id \in Ids, T \in LongTimes, delta \in K1Updates :
        \A res \in UpdateRecord(record_versions, records, id, T, delta, now) :
            (/\ res.err = ErrNil
             /\ T \notin TimestampsOf(record_versions, id)
             /\ Cardinality(TimestampsOf(record_versions, id))
                  = Cardinality(RowsOf(record_versions, id))) =>
                \A i \in RowsOf(record_versions, id), j \in RowsOf(record_versions, id) :
                    (/\ T < record_versions[i].actual_update_timestamp
                     /\ record_versions[i].actual_update_timestamp
                          < record_versions[j].actual_update_timestamp
                     /\ \A m \in RowsOf(record_versions, id) :
                          ~(/\ record_versions[i].actual_update_timestamp
                                 < record_versions[m].actual_update_timestamp
                            /\ record_versions[m].actual_update_timestamp
                                 < record_versions[j].actual_update_timestamp)) =>
                        \A k \in Keys :
                            DiffersAt(AttributesOf(record_versions[i]),
                                      AttributesOf(record_versions[j]), k) =>
                                DiffersAt(AttributesOf(res.record_versions[i]),
                                          AttributesOf(res.record_versions[j]), k)

\* C15 (as claimed): the Record a successful UpdateRecord(id, T, delta)
\* returns is the stored new entry: its version is a rank GetVersions gives
\* that entry, its timestamps and data are the entry's, and
\* GetVersionedRecord(id, version) returns the same fields right after.
C15_ReturnedRecordIsNewEntry ==
    \A id \in Ids, T \in Times, delta \in Updates :
        \A res \in UpdateRecord(record_versions, records, id, T, delta, now) :
            res.err = ErrNil =>
                LET new == res.record_versions[Len(record_versions) + 1]
                IN  /\ res.record.ID = id
                    /\ res.record.UpdatedTimestamp = new.actual_update_timestamp
                    /\ res.record.ReportedTimestamp = new.created_at
                    /\ res.record.ReportedTimestamp = now
                    /\ res.record.Data.kv = AttributesOf(new)
                    /\ res.record.Version
                         \in RanksOf(res.record_versions, id, Len(record_versions) + 1)
                    /\ \E r \in GetVersionedRecord(res.record_versions, id,
                                                   res.record.Version) :
                        /\ r.UpdatedTimestamp = res.record.UpdatedTimestamp
                        /\ r.ReportedTimestamp = res.record.ReportedTimestamp
                        /\ r.Data.kv = res.record.Data.kv

\* The rows and the identity rows of record b are in tbl2 and recs2 what they
\* are in tbl1 and recs1.
SameRecord(b, tbl1, recs1, tbl2, recs2) ==
    /\ RowsOf(tbl2, b) = RowsOf(tbl1, b)
    /\ \A i \in RowsOf(tbl1, b) : tbl2[i] = tbl1[i]
    /\ {r \in recs2 : r.id = b} = {r \in recs1 : r.id = b}

\* The results of the calls UpdateRecord, CreateRecord and ProcessInput on
\* record a, run in one piece on the tables as they are.
CallsOn(a) ==
    UNION {UpdateRecord(record_versions, records, a, T, delta, now)
             \cup CreateRecord(record_versions, records, Record(a, 1, T, 0, EmptyMap), now)
             \cup ProcessInput(record_versions, records, a, T, delta, now) :
           T \in Times, delta \in K1Updates}

\* C16: with no other call in flight, UpdateRecord, CreateRecord and
\* ProcessInput on record a leave the rows and the identity row of every other
\* record b as they were; and so does every step of a CreateRecord or
\* UpdateRecord call on a that runs interleaved with another call.
C16_OtherRecordsUntouched ==
    [][/\ (\A p \in Procs : calls[p].pc = "idle") =>
            \A a \in PairIds : \A b \in PairIds \ {a} :
                \A res \in CallsOn(a) :
                    SameRecord(b, record_versions, records,
                               res.record_versions, res.records)
       /\ \A p \in Procs :
            calls'[p] # calls[p] =>
                \A b \in PairIds \ {calls'[p].id} :
                    SameRecord(b, record_versions, records, record_versions', records')]_vars

\* An UpdateRecord call on one record and a CreateRecord call on another began
\* on the same table and have both committed a row; the created row is later
\* than the update's timestamp.
C16_Witness ==
    /\ calls["p1"].op = "UpdateRecord" /\ calls["p1"].pc = "committed"
    /\ calls["p2"].op = "CreateRecord" /\ calls["p2"].pc = "returned"
    /\ calls["p2"].err = ErrNil
    /\ calls["p1"].id # calls["p2"].id
    /\ calls["p1"].start = calls["p2"].start
    /\ Len(record_versions) = Len(calls["p1"].start) + 2
    /\ calls["p2"].ts > calls["p1"].ts

\* C17: ProcessInput(id, T, body) on an id GetRecord does not find creates the
\* record: one identity row and one entry at T, stored now, holding the keys
\* of body that carry a value, and it returns that data with version 1. On an
\* id GetRecord finds, its result is a result of UpdateRecord(id, T, body).
C17_UpsertCreatesOrUpdates ==
    \A id \in PairIds, T \in Times, body \in Updates :
        \A res \in ProcessInput(record_versions, records, id, T, body, now) :
            LET kept == {k \in DOMAIN body : body[k] # NilPtr}
                new == res.record_versions[Len(record_versions) + 1]
            IN  IF GetRecord(record_versions, id) = {}
                THEN /\ res.err = ErrNil
                     /\ Len(res.record_versions) = Len(record_versions) + 1
                     /\ \A i \in RowIds(record_versions) :
                            res.record_versions[i] = record_versions[i]
                     /\ new.record_id = id
                     /\ new.actual_update_timestamp = T
                     /\ new.created_at = now
                     /\ ~new.attributes.isNull
                     /\ DOMAIN new.attributes.obj = kept
                     /\ \A k \in kept : new.attributes.obj[k] = body[k]
                     /\ res.records = records \cup {[id |-> id, created_at |-> now]}
                     /\ res.record.ID = id
                     /\ res.record.Version = 1
                     /\ res.record.UpdatedTimestamp = T
                     /\ res.record.Data.kv = new.attributes.obj
                ELSE res \in UpdateRecord(record_versions, records, id, T, body, now)

\* A handler has just updated, through ProcessInput, a record that an earlier
\* handler call created through ProcessInput.
C17_Witness ==
    /\ last.op \in {"PostRecords", "PostRecordsAtAGivenTime"}
    /\ last.err = ErrNil
    /\ Len(record_versions) >= 2
    /\ AttributesOf(record_versions[1]) # <<>>
    /\ AttributesOf(LastRow) # AttributesOf(record_versions[1])

\* C18: CreateRecord on an id that has an identity row or an entry fails with
\* ErrRecordAlreadyExists and leaves both tables as they were.
C18_CreateExistingRefused ==
    \A id \in Ids, ts \in Times, data \in GoMaps :
        (\/ \E r \in records : r.id = id
         \/ RowsOf(record_versions, id) # {}) =>
            \A res \in CreateRecord(record_versions, records, Record(id, 1, ts, 0, data), now) :
                /\ res.err = ErrRecordAlreadyExists
                /\ res.record_versions = record_versions
                /\ res.records = records

\* A CreateRecord call has just been refused on a record that has a chain of
\* several entries.
C18_Witness ==
    /\ last.op = "CreateRecord"
    /\ last.err = ErrRecordAlreadyExists
    /\ Cardinality(RowsOf(record_versions, 1)) >= 2
    /\ \E r \in records : r.id = 1

\* The ids a caller of the service may pass that are not positive.
NonPositiveIds == (0 - MaxId)..0

\* C19 (as claimed): CreateRecord with an id that is not positive fails and
\* stores nothing, and no row of either table carries such an id. (The code
\* has no InvalidId error: any error counts as the failure.)
C19_NonPositiveIdRefused ==
    /\ \A i \in RowIds(record_versions) : record_versions[i].record_id > 0
    /\ \A r \in records : r.id > 0
    /\ \A id \in NonPositiveIds, ts \in Times, data \in GoMaps :
        \A res \in CreateRecord(record_versions, records, Record(id, 1, ts, 0, data), now) :
            /\ res.err # ErrNil
            /\ res.record_versions = record_versions
            /\ res.records = records

C21_UpdateOfMissingRecordFails ==
    \A id \in PairIds, T \in Times, delta \in Updates :
        RowsOf(record_versions, id) = {} =>
            \A res \in UpdateRecord(record_versions, records, id, T, delta, now) :
                /\ res.err # ErrNil
                /\ res.err = ErrRecordDoesNotExist
                /\ res.record_versions = record_versions
                /\ res.records = records
                /\ res.record = NoRecord

\* An UpdateRecord call has just failed on a store that holds no record.
C21_Witness ==
    /\ last.op = "UpdateRecord"
    /\ last.err = ErrRecordDoesNotExist
    /\ record_versions = <<>>
    /\ records = {}

\* The record `r` is the entry stored in row `i` of the table, read as the
\* read path decodes it.
IsEntry(r, tbl, i) ==
    /\ r.ID = tbl[i].record_id
    /\ r.UpdatedTimestamp = tbl[i].actual_update_timestamp
    /\ r.ReportedTimestamp = tbl[i].created_at
    /\ r.Data.kv = AttributesOf(tbl[i])

\* C22: GetRecord(id) fails with ErrRecordDoesNotExist exactly when id has no
\* entries; otherwise it returns an entry of id that carries the greatest
\* effective timestamp, with the version being the number of entries of id
\* with a smaller effective timestamp plus one.
C22_GetRecordReturnsLatest ==
    \A id \in PairIds :
        /\ (GetRecord(record_versions, id) = {}) = (RowsOf(record_versions, id) = {})
        /\ \A r \in GetRecord(record_versions, id) :
            /\ \E i \in RowsOf(record_versions, id) :
                /\ IsEntry(r, record_versions, i)
                /\ \A j \in RowsOf(record_versions, id) :
                    record_versions[j].actual_update_timestamp
                        <= record_versions[i].actual_update_timestamp
            /\ r.Version = Cardinality({j \in RowsOf(record_versions, id) :
                              record_versions[j].actual_update_timestamp
                                  < r.UpdatedTimestamp}) + 1

\* The record holds three entries, the latest of which was not the last one
\* written and differs from it, and GetRecord returns it as version 3.
C22_Witness ==
    /\ Len(record_versions) = 3
    /\ \E i \in Earlier :
        /\ record_versions[i].record_id = LastRow.record_id
        /\ record_versions[i].actual_update_timestamp > LastRow.actual_update_timestamp
        /\ AttributesOf(record_versions[i]) # AttributesOf(LastRow)
    /\ \E r \in GetRecord(record_versions, LastRow.record_id) :
        /\ r.Version = 3
        /\ r.UpdatedTimestamp > LastRow.actual_update_timestamp

\* C23: GetRecordAt(id, T) fails with ErrRecordDoesNotExist exactly when no
\* entry of id has an effective timestamp below T; otherwise it returns an
\* entry of id with the greatest effective timestamp strictly below T, never
\* an entry at T itself.
C23_GetRecordAtStrictlyBefore ==
    \A id \in PairIds, T \in 0..(MaxTime + 1) :
        LET before == {i \in RowsOf(record_versions, id) :
                         record_versions[i].actual_update_timestamp < T}
        IN  /\ (GetRecordAt(record_versions, id, T) = {}) = (before = {})
            /\ \A r \in GetRecordAt(record_versions, id, T) :
                /\ r.UpdatedTimestamp < T
                /\ \E i \in before :
                    /\ IsEntry(r, record_versions, i)
                    /\ \A j \in before :
                        record_versions[j].actual_update_timestamp
                            <= record_versions[i].actual_update_timestamp
                /\ r.Version = Cardinality({j \in RowsOf(record_versions, id) :
                                  record_versions[j].actual_update_timestamp
                                      < r.UpdatedTimestamp}) + 1

\* The record holds an entry exactly at some T and a different entry before
\* it, and GetRecordAt(id, T) returns the one before; asked at the earliest
\* entry's own timestamp it finds none.
C23_Witness ==
    \E i \in RowIds(record_versions), j \in RowIds(record_versions) :
        /\ record_versions[i].record_id = record_versions[j].record_id
        /\ record_versions[j].actual_update_timestamp
             < record_versions[i].actual_update_timestamp
        /\ AttributesOf(record_versions[i]) # AttributesOf(record_versions[j])
        /\ \E r \in GetRecordAt(record_versions, record_versions[i].record_id,
                                record_versions[i].actual_update_timestamp) :
            IsEntry(r, record_versions, j)
        /\ GetRecordAt(record_versions, record_versions[j].record_id,
                       record_versions[j].actual_update_timestamp) = {}

\* The version numbers a caller may ask for: below 1, in range and past the end.
VersionNumbers == (0 - 1)..(MaxVersions + 1)

\* C24 (as claimed): GetVersionedRecord(id, n) returns no entry when n < 1 and
\* none when n exceeds the number of entries of id. (The service defines no
\* InvalidVersion error: any error counts as the failure.)
C24_VersionOutOfRangeFails ==
    \A id \in PairIds, n \in VersionNumbers :
        (n < 1 \/ n > Cardinality(RowsOf(record_versions, id))) =>
            GetVersionedRecord(record_versions, id, n) = {}

EntryCount(tbl, id) == Cardinality(RowsOf(tbl, id))

OtherKeysKept(before, delta, after) ==
    \A k \in Keys \ DOMAIN delta :
        /\ (k \in DOMAIN after) = (k \in DOMAIN before)
        /\ k \in DOMAIN before => after[k] = before[k]

\* C27: a successful UpdateRecord(id, T, delta) whose delta maps a key k to the
\* deletion marker leaves k out of the new entry and out of every entry of id
\* after T, and every key that delta does not name has in the new entry the
\* state it has in the base entry, and in each later entry the state it had
\* there before the call.
C27_DeletionRemovesOnlyNamedKey ==
    \A id \in Ids, T \in Times, delta \in Updates :
        \A k \in {d \in DOMAIN delta : delta[d] = NilPtr} :
            \A res \in UpdateRecord(record_versions, records, id, T, delta, now) :
                res.err = ErrNil =>
                    LET new == res.record_versions[Len(record_versions) + 1]
                    IN  /\ k \notin DOMAIN AttributesOf(new)
                        /\ \E b \in GetRecordAtRows(record_versions, id, T) :
                            OtherKeysKept(AttributesOf(record_versions[b]), delta,
                                          AttributesOf(new))
                        /\ \A i \in RowsOf(record_versions, id) :
                            record_versions[i].actual_update_timestamp > T =>
                                /\ k \notin DOMAIN AttributesOf(res.record_versions[i])
                                /\ OtherKeysKept(AttributesOf(record_versions[i]), delta,
                                                 AttributesOf(res.record_versions[i]))

\* An update has just been inserted between two entries of its record; the
\* entry before it holds two keys, and both the new entry and the later entry
\* hold one of them, with its value, and lack the other.
C27_Witness ==
    /\ UpdateSucceeded
    /\ \E b \in Earlier, l \in Earlier :
        /\ record_versions[b].record_id = LastRow.record_id
        /\ record_versions[l].record_id = LastRow.record_id
        /\ record_versions[b].actual_update_timestamp < LastRow.actual_update_timestamp
        /\ record_versions[l].actual_update_timestamp > LastRow.actual_update_timestamp
        /\ \E k \in Keys, other \in Keys :
            /\ k # other
            /\ k \in DOMAIN AttributesOf(record_versions[b])
            /\ other \in DOMAIN AttributesOf(record_versions[b])
            /\ k \notin DOMAIN AttributesOf(LastRow)
            /\ k \notin DOMAIN AttributesOf(record_versions[l])
            /\ other \in DOMAIN AttributesOf(LastRow)
            /\ other \in DOMAIN AttributesOf(record_versions[l])
            /\ AttributesOf(LastRow)[other] = AttributesOf(record_versions[b])[other]
            /\ AttributesOf(record_versions[l])[other]
                 = AttributesOf(record_versions[b])[other]

\* The delta holds a deletion marker for a key that the attributes lack.
DeletesAbsentKey(delta, attributes) ==
    \E k \in DOMAIN delta : delta[k] = NilPtr /\ k \notin DOMAIN attributes

\* C28: an UpdateRecord whose delta holds a deletion marker for a key that the
\* base entry, or a later entry, lacks returns no error; the new entry is the
\* base with the delta applied and each later entry is as before with the
\* delta applied, the absent key staying absent and the keys outside the delta
\* untouched. On an id without entries, both handlers accept a body with
\* deletion markers and create the record from its non-nil values.
C28_DeletingAbsentKeyIsNoOp ==
    \A id \in PairIds, T \in Times, delta \in Updates :
        /\ \A b \in GetRecordAtRows(record_versions, id, T) :
            LET later == {i \in RowsOf(record_versions, id) :
                            record_versions[i].actual_update_timestamp > T}
                res == UpdateRecordFrom(record_versions, records, id, T, delta,
                           GetRecordDetails(record_versions, id, record_versions[b]), now)
            IN  (\/ DeletesAbsentKey(delta, AttributesOf(record_versions[b]))
                 \/ \E i \in later :
                        DeletesAbsentKey(delta, AttributesOf(record_versions[i]))) =>
                    /\ res \in UpdateRecord(record_versions, records, id, T, delta, now)
                    /\ res.err = ErrNil
                    /\ IsDeltaApplied(AttributesOf(record_versions[b]), delta,
                           AttributesOf(res.record_versions[Len(record_versions) + 1]))
                    /\ \A i \in later :
                        IsDeltaApplied(AttributesOf(record_versions[i]), delta,
                                       AttributesOf(res.record_versions[i]))
        /\ (RowsOf(record_versions, id) = {} /\ DeletesAbsentKey(delta, <<>>)) =>
            \A res \in PostRecords(record_versions, records, id, delta, now)
                       \cup PostRecordsAtAGivenTime(record_versions, records, id, T,
                                                    delta, now) :
                /\ res.err = ErrNil
                /\ Len(res.record_versions) = Len(record_versions) + 1
                /\ IsDeltaApplied(<<>>, delta,
                       AttributesOf(res.record_versions[Len(record_versions) + 1]))

\* A v2 POST has just succeeded between two entries of its record, and all
\* three entries hold no attributes: its body, which may not be empty, held
\* only deletion markers, for keys absent from the base and from the later entry.
C28_Witness ==
    /\ last.op = "PostRecordsAtAGivenTime"
    /\ last.err = ErrNil
    /\ Len(record_versions) = 3
    /\ \A i \in RowIds(record_versions) :
        /\ record_versions[i].record_id = LastRow.record_id
        /\ AttributesOf(record_versions[i]) = <<>>
    /\ \E b \in Earlier, l \in Earlier :
        /\ record_versions[b].actual_update_timestamp < LastRow.actual_update_timestamp
        /\ record_versions[l].actual_update_timestamp > LastRow.actual_update_timestamp

\* C29 (as claimed): in every reachable state the stored attributes of every
\* version entry are a JSON object, possibly empty, and never null, also for a
\* record that CreateRecord was given without a map.
C29_AttributesNeverNull ==
    \A i \in RowIds(record_versions) : ~record_versions[i].attributes.isNull

\* C30 (as claimed): for a record that has entries, a failure of the store
\* under GetRecord is reported with an error other than ErrRecordDoesNotExist,
\* and a POST made while the store fails under GetRecord does not go through
\* CreateRecord: what it answers is neither ErrRecordDoesNotExist nor
\* ErrRecordAlreadyExists.
C30_StorageFailureIsDistinct ==
    \A id \in Ids, body \in Updates :
        RowsOf(record_versions, id) # {} =>
            /\ \A err \in GetRecordFailing(record_versions, id) :
                err # ErrRecordDoesNotExist
            /\ \A res \in ProcessInputFailing(record_versions, records, id, now,
                                               body, now) :
                /\ res.err # ErrRecordDoesNotExist
                /\ res.err # ErrRecordAlreadyExists

\* C31 (as claimed): a v1 POST on a record that has entries always succeeds,
\* inserts an entry holding the body applied to the attributes of the record's
\* latest entry (nil values delete keys), returns that data, and the new entry
\* is then the latest of the record, also when the previous write fell in the
\* same second or an entry with a later effective timestamp exists.
C31_V1PostUpdatesLatest ==
    \A id \in Ids, body \in Updates :
        RowsOf(record_versions, id) # {} =>
            \A res \in PostRecords(record_versions, records, id, body, now) :
                /\ res.err = ErrNil
                /\ Len(res.record_versions) = Len(record_versions) + 1
                /\ LET new == res.record_versions[Len(record_versions) + 1]
                   IN  /\ \E l \in GetRecordRows(record_versions, id) :
                            /\ IsDeltaApplied(AttributesOf(record_versions[l]), body,
                                              AttributesOf(new))
                            /\ IsDeltaApplied(AttributesOf(record_versions[l]), body,
                                              res.record.Data.kv)
                       /\ \A i \in RowsOf(record_versions, id) :
                            record_versions[i].actual_update_timestamp
                                < new.actual_update_timestamp

\* The methods that only read.
ReadMethods == Reads \cup {"GetVersionedRecord"}

\* The step is a step of a reading call of one client.
ReadStep ==
    \E p \in Procs :
        /\ calls'[p] # calls[p]
        /\ calls'[p].op \in ReadMethods
        /\ \A q \in Procs \ {p} : calls'[q] = calls[q]

\* The entries of the record carry different effective timestamps.
DistinctTimestamps(tbl, id) ==
    \A i \in RowsOf(tbl, id), j \in RowsOf(tbl, id) :
        i # j => tbl[i].actual_update_timestamp # tbl[j].actual_update_timestamp

\* Two clients have made the same GetRecord or GetRecordAt call on the table as
\* it is now, with no write since either began: each returned an answer the
\* table gives, and the same one unless entries of the record share a
\* timestamp (whose order the query leaves to the database).
ReadsAgree ==
    \A p \in Procs, q \in Procs :
        (/\ p # q
         /\ calls[p].op \in {"GetRecord", "GetRecordAt"}
         /\ calls[q].op = calls[p].op
         /\ calls[p].pc = "returned" /\ calls[q].pc = "returned"
         /\ calls[p].id = calls[q].id /\ calls[p].ts = calls[q].ts
         /\ calls[p].start = record_versions /\ calls[q].start = record_versions) =>
            /\ Outcome(calls[p].out, calls[p].err)
                 \in AtomicOutcomes(calls[p].op, record_versions, calls[p].id, calls[p].ts)
            /\ DistinctTimestamps(record_versions, calls[p].id) =>
                /\ calls[p].out = calls[q].out
                /\ calls[p].err = calls[q].err

\* C32: no step of GetRecord, GetRecordAt, GetVersions or GetVersionedRecord
\* changes either table, and two GetRecord or two GetRecordAt calls with the
\* same arguments and no write in between return the same result.
C32_ReadsChangeNothing ==
    [][/\ ReadStep => /\ record_versions' = record_versions
                      /\ records' = records
       /\ ReadsAgree
       /\ ReadsAgree']_vars

\* Both clients have asked GetRecordAt(id, T) of a record with two entries,
\* with no write since, and both were given the same entry.
C32_Witness ==
    /\ calls["p1"].op = "GetRecordAt" /\ calls["p2"].op = "GetRecordAt"
    /\ calls["p1"].pc = "returned" /\ calls["p2"].pc = "returned"
    /\ calls["p1"].id = calls["p2"].id /\ calls["p1"].ts = calls["p2"].ts
    /\ calls["p1"].start = record_versions /\ calls["p2"].start = record_versions
    /\ Len(record_versions) = 2
    /\ DistinctTimestamps(record_versions, calls["p1"].id)
    /\ calls["p1"].err = ErrNil
    /\ calls["p1"].out = calls["p2"].out
    /\ IsEntry(calls["p1"].out[1], record_versions, 1)
    /\ calls["p1"].out[1].Data.kv # <<>>

\* What the reads return right after the successful update `res` of record id
\* at T: GetRecordAt(id, T2) is the new entry for every T2 after T up to the
\* next larger effective timestamp of id (any T2 after T when there is none),
\* GetRecordAt(id, T) is still a base entry that preceded T, and GetRecord is
\* the new entry exactly when no entry of id lies after T.
ReadsAfterUpdate(id, T, res) ==
    LET after == res.record_versions
        new == Len(record_versions) + 1
        later == {record_versions[i].actual_update_timestamp :
                    i \in {j \in RowsOf(record_versions, id) :
                             record_versions[j].actual_update_timestamp > T}}
    IN  /\ \A T2 \in (T + 1)..(MaxTime + 1) :
            (\A l \in later : T2 <= l) =>
                /\ GetRecordAt(after, id, T2) # {}
                /\ \A r \in GetRecordAt(after, id, T2) : IsEntry(r, after, new)
        /\ GetRecordAt(after, id, T) # {}
        /\ \A r \in GetRecordAt(after, id, T) :
            \E b \in GetRecordAtRows(record_versions, id, T) :
                IsEntry(r, record_versions, b)
        /\ GetRecord(after, id) # {}
        /\ \A r \in GetRecord(after, id) : IsEntry(r, after, new) = (later = {})

\* C33 (as claimed): right after a successful UpdateRecord(id, T, delta),
\* GetRecordAt(id, T2) returns the new entry for every T2 with T < T2 <= the
\* next larger effective timestamp of id, GetRecordAt(id, T) still returns the
\* base entry, and GetRecord returns the new entry only if T is the greatest
\* effective timestamp.
C33_ReadsAfterUpdate ==
    \A id \in Ids, T \in Times, delta \in Updates :
        \A res \in UpdateRecord(record_versions, records, id, T, delta, now) :
            res.err = ErrNil => ReadsAfterUpdate(id, T, res)

\* The same, for updates at a T that no entry of the record carries yet.
ReadsAfterFreshUpdate ==
    \A id \in Ids, T \in Times, delta \in Updates :
        \A res \in UpdateRecord(record_versions, records, id, T, delta, now) :
            (/\ res.err = ErrNil
             /\ \A i \in RowsOf(record_versions, id) :
                    record_versions[i].actual_update_timestamp # T) =>
                ReadsAfterUpdate(id, T, res)

\* C34: whatever UpdateRecord(id, T, delta) returns, every entry that existed
\* before the call is still there with the record id, the effective timestamp
\* and the reported timestamp it had; only the attributes of the entries of id
\* after T may differ.
C34_CascadeKeepsTimestamps ==
    \A id \in Ids, T \in Times, delta \in Updates :
        \A res \in UpdateRecord(record_versions, records, id, T, delta, now) :
            \A i \in RowIds(record_versions) :
                /\ i \in RowIds(res.record_versions)
                /\ res.record_versions[i].record_id = record_versions[i].record_id
                /\ res.record_versions[i].actual_update_timestamp
                     = record_versions[i].actual_update_timestamp
                /\ res.record_versions[i].created_at = record_versions[i].created_at
                /\ res.record_versions[i] # record_versions[i] =>
                    /\ res.err = ErrNil
                    /\ record_versions[i].record_id = id
                    /\ record_versions[i].actual_update_timestamp > T

\* An update has just succeeded behind a later entry of its record that was
\* reported in an earlier second: the later entry holds attributes, and still
\* carries its own reported timestamp, not the update's.
C34_Witness ==
    /\ UpdateSucceeded
    /\ LastRow.created_at = now
    /\ \E l \in Earlier :
        /\ record_versions[l].record_id = LastRow.record_id
        /\ record_versions[l].actual_update_timestamp > LastRow.actual_update_timestamp
        /\ record_versions[l].created_at < LastRow.created_at
        /\ AttributesOf(record_versions[l]) # <<>>
        /\ AttributesOf(record_versions[l]) = AttributesOf(LastRow)

\* C35 (as claimed): in every reachable state, for every id with entries, the
\* version GetRecord(id) returns is the number of entries of id, and the
\* record it returns is the last element of GetVersions(id).
C35_LatestIsLastVersion ==
    \A id \in Ids :
        RowsOf(record_versions, id) # {} =>
            \A r \in GetRecord(record_versions, id) :
                /\ r.Version = Cardinality(RowsOf(record_versions, id))
                /\ \A vs \in GetVersions(record_versions, id) : r = vs[Len(vs)]

\* The same, in the states where the entries of the record carry different
\* effective timestamps.
LatestIsLastOfDistinct ==
    \A id \in Ids :
        (RowsOf(record_versions, id) # {} /\ DistinctTimestamps(record_versions, id)) =>
            \A r \in GetRecord(record_versions, id) :
                /\ r.Version = Cardinality(RowsOf(record_versions, id))
                /\ \A vs \in GetVersions(record_versions, id) : r = vs[Len(vs)]

\* C36 (as claimed): whenever CreateRecord or UpdateRecord returns a record
\* and no error, also when the commit of its transaction failed, the table
\* holds the new entry with the effective timestamp and the attributes
\* returned, and after an update every later entry of the record has absorbed
\* the delta.
C36_SuccessMeansStored ==
    /\ \A id \in Ids, T \in Times, delta \in Updates :
        \A res \in UpdateRecord(record_versions, records, id, T, delta, now)
                   \cup UpdateRecordCommitFailing(record_versions, records, id, T,
                                                  delta, now) :
            res.err = ErrNil =>
                /\ Len(res.record_versions) = Len(record_versions) + 1
                /\ LET new == res.record_versions[Len(record_versions) + 1]
                   IN  /\ new.record_id = id
                       /\ new.actual_update_timestamp = res.record.UpdatedTimestamp
                       /\ AttributesOf(new) = res.record.Data.kv
                /\ \A i \in RowsOf(record_versions, id) :
                    record_versions[i].actual_update_timestamp > T =>
                        IsDeltaApplied(AttributesOf(record_versions[i]), delta,
                                       AttributesOf(res.record_versions[i]))
    /\ \A id \in Ids, T \in Times, data \in GoMaps :
        \A res \in CreateRecord(record_versions, records, Record(id, 1, T, 0, data), now)
                   \cup CreateRecordCommitFailing(record_versions, records,
                                                  Record(id, 1, T, 0, data), now) :
            res.err = ErrNil =>
                /\ Len(res.record_versions) = Len(record_versions) + 1
                /\ LET new == res.record_versions[Len(record_versions) + 1]
                   IN  /\ new.record_id = id
                       /\ new.actual_update_timestamp = res.record.UpdatedTimestamp
                       /\ AttributesOf(new) = res.record.Data.kv
                /\ \E r \in res.records : r.id = id

\* The same, for the calls whose commit goes through.
StoredWhenCommitted ==
    /\ \A id \in Ids, T \in Times, delta \in Updates :
        \A res \in UpdateRecord(record_versions, records, id, T, delta, now) :
            res.err = ErrNil =>
                /\ Len(res.record_versions) = Len(record_versions) + 1
                /\ LET new == res.record_versions[Len(record_versions) + 1]
                   IN  /\ new.record_id = id
                       /\ new.actual_update_timestamp = res.record.UpdatedTimestamp
                       /\ AttributesOf(new) = res.record.Data.kv
                /\ \A i \in RowsOf(record_versions, id) :
                    record_versions[i].actual_update_timestamp > T =>
                        IsDeltaApplied(AttributesOf(record_versions[i]), delta,
                                       AttributesOf(res.record_versions[i]))
    /\ \A id \in Ids, T \in Times, data \in GoMaps :
        \A res \in CreateRecord(record_versions, records, Record(id, 1, T, 0, data), now) :
            res.err = ErrNil =>
                /\ Len(res.record_versions) = Len(record_versions) + 1
                /\ LET new == res.record_versions[Len(record_versions) + 1]
                   IN  /\ new.record_id = id
                       /\ new.actual_update_timestamp = res.record.UpdatedTimestamp
                       /\ AttributesOf(new) = res.record.Data.kv
                /\ \E r \in res.records : r.id = id

\* The in-memory service's map that corresponds to the table: each record
\* with entries holds the attributes GetRecord returns for it.
InMemoryOf(tbl) ==
    [id \in Ids |->
        IF RowsOf(tbl, id) = {} THEN NoEntry
        ELSE Entry(id, (CHOOSE r \in GetRecord(tbl, id) : TRUE).Data)]

\* C37: along one CreateRecord followed by UpdateRecord calls with strictly
\* increasing effective timestamps, the entries stand in the order of their
\* timestamps, each call of the versioned service does to GetRecord(id).Data
\* what the same call does to the record InMemoryRecordService holds (so the
\* latest attributes are the deltas folded in order over the initial
\* attributes), both return the same data and fail alike, and no existing
\* entry is rewritten.
C37_RefinesInMemory ==
    /\ \A i \in RowIds(record_versions), j \in RowIds(record_versions) :
        (i < j /\ record_versions[i].record_id = record_versions[j].record_id) =>
            record_versions[i].actual_update_timestamp
                < record_versions[j].actual_update_timestamp
    /\ \A id \in Ids, T \in Times, data \in GoMaps :
        RowsOf(record_versions, id) = {} =>
            \A res \in CreateRecord(record_versions, records,
                                    Record(id, 1, T, 0, data), now) :
                LET mem == InMemoryCreateRecord(InMemoryOf(record_versions),
                                                Record(id, 1, T, 0, data))
                IN  /\ res.err = ErrNil /\ mem.err = ErrNil
                    /\ InMemoryOf(res.record_versions) = mem.data
    /\ \A id \in Ids, T \in Times, delta \in Updates :
        (/\ RowsOf(record_versions, id) # {}
         /\ \A i \in RowsOf(record_versions, id) :
                record_versions[i].actual_update_timestamp < T) =>
            \A res \in UpdateRecord(record_versions, records, id, T, delta, now) :
                LET mem == InMemoryUpdateRecord(InMemoryOf(record_versions), id, delta)
                IN  /\ res.err = mem.err
                    /\ res.err = ErrNil =>
                        /\ \A i \in RowIds(record_versions) :
                            res.record_versions[i] = record_versions[i]
                        /\ res.record.Data = mem.record.Data
                        /\ InMemoryOf(res.record_versions) = mem.data
                        /\ InMemoryGetRecord(mem.data, id).record.Data.kv
                             = (CHOOSE r \in GetRecord(res.record_versions, id) : TRUE).Data.kv

\* Two updates have followed the create of a record, each later than the
\* entry before it, and the three entries hold three different attribute
\* maps, the first being the one the record was created with.
C37_Witness ==
    /\ UpdateSucceeded
    /\ Len(record_versions) = 3
    /\ \A i \in RowIds(record_versions) : record_versions[i].record_id = LastRow.record_id
    /\ AttributesOf(record_versions[1]) # <<>>
    /\ AttributesOf(record_versions[1]) # AttributesOf(record_versions[2])
    /\ AttributesOf(record_versions[2]) # AttributesOf(record_versions[3])
    /\ AttributesOf(record_versions[1]) # AttributesOf(record_versions[3])
    /\ InMemoryOf(record_versions)[LastRow.record_id].Data.kv = AttributesOf(LastRow)

\* The identity rows of a record.
IdentityRows(recs, id) == {r \in recs : r.id = id}

\* C38: a record never has more than one identity row, and when two clients
\* have both gone through CreateRecord for the same id, directly or from
\* ProcessInput's create path, in any interleaving of their checks and
\* transactions, exactly one of them returned without error, the other
\* returned an error, and the id has one identity row and one version entry.
C38_OneCreateWins ==
    /\ \A id \in PairIds : Cardinality(IdentityRows(records, id)) <= 1
    /\ \A p \in Procs, q \in Procs :
        (/\ p # q
         /\ calls[p].op = "CreateRecord" /\ calls[q].op = "CreateRecord"
         /\ calls[p].pc = "returned" /\ calls[q].pc = "returned"
         /\ calls[p].id = calls[q].id) =>
            /\ calls[p].err # ErrNil \/ calls[q].err # ErrNil
            /\ calls[p].err = ErrNil \/ calls[q].err = ErrNil
            /\ Cardinality(IdentityRows(records, calls[p].id)) = 1
            /\ EntryCount(record_versions, calls[p].id) = 1

\* Both clients posted to the same id, both found no record and no identity
\* row, the first transaction went through and the second ran into the
\* primary key of records: one version entry is there.
C38_Witness ==
    /\ calls["p1"].op = "CreateRecord" /\ calls["p2"].op = "CreateRecord"
    /\ calls["p1"].pc = "returned" /\ calls["p2"].pc = "returned"
    /\ calls["p1"].id = calls["p2"].id
    /\ calls["p1"].updates # <<>> /\ calls["p2"].updates # <<>>
    /\ calls["p1"].err = ErrNil
    /\ calls["p2"].err = ErrConstraint
    /\ EntryCount(record_versions, calls["p1"].id) = 1

====
